---- MODULE Spec2Model ----
(***************************************************************************)
(* A model of the provider-invocation core of the Music JSON translation   *)
(* tool: src/services/geminiService.ts (callCustomApi, getNestedValue,     *)
(* translateJson), and of the Settings form that edits its settings.       *)
(*                                                                         *)
(* Text is modelled as a sequence of one-character strings, so that the    *)
(* string operations of the code (JSON.stringify, String.replace, split,   *)
(* the two regular expressions, JSON.parse) are computed character by      *)
(* character as the platform computes them.                                *)
(***************************************************************************)
EXTENDS Integers, Sequences, FiniteSets, TLC

VARIABLES
    call,          \* the other arguments of the call: [jsonData, customPrompt]
    settings,      \* the ApiSettings record of the call (provider "ABSENT": no apiSettings)
    pc,            \* position of translateJson: attempt, fetching, generating, delay, returned, thrown
    attempt,       \* the loop counter of translateJson
    lastError,     \* the variable lastError of translateJson
    result,        \* the value translateJson returned
    thrown,        \* the error translateJson threw
    steps,         \* steps[k]: the steps attempt k has taken, in order
    requests,      \* every adapter request the call has issued
    response,      \* the HTTP response the current attempt has received, if any
    delays,        \* every backoff delay the call has waited for, in ms
    errs,          \* the error caught in each attempt so far
    tpl,           \* one body substitution: [prompt, template, body, done]
    pth,           \* one path extraction: [json, path, out, done]
    rec,           \* one lenient recovery: [text, out, done]
    frames,        \* two translateJson calls in progress at once: their activations
    form           \* the Settings form: its React state and the saves it has made

vars == <<call, settings, pc, attempt, lastError, result, thrown, steps, requests,
          response, delays, errs, tpl, pth, rec, frames, form>>

----------------------------------------------------------------------------
(* Text *)

\* The backquote character. The TLA+ lexer reads a backquote inside a string as
\* the start of a quotation that a later apostrophe must close, so the
\* character is cut out of a string that holds both.
Backtick == SubSeq("`'", 1, 1)

\* A string literal as a sequence of one-character strings; "~" in the literal
\* stands for the backquote.
Chars(s) == [i \in 1..Len(s) |->
                IF SubSeq(s, i, i) = "~" THEN Backtick ELSE SubSeq(s, i, i)]

\* The concatenation of a sequence of sequences, by halves: the depth of the
\* evaluation grows with the logarithm of the length.
RECURSIVE Flatten(_)
Flatten(ss) ==
    IF ss = <<>> THEN <<>>
    ELSE IF Len(ss) = 1 THEN ss[1]
    ELSE LET h == Len(ss) \div 2
         IN  Flatten(SubSeq(ss, 1, h)) \o Flatten(SubSeq(ss, h + 1, Len(ss)))

Min(S) == CHOOSE i \in S : \A j \in S : i <= j
Max(S) == CHOOSE i \in S : \A j \in S : i >= j

\* The first position from i on whose character is in cs; Len(s) + 1 if none.
NextOf(s, i, cs) ==
    LET hits == {j \in i..Len(s) : s[j] \in cs}
    IN  IF hits = {} THEN Len(s) + 1 ELSE Min(hits)

\* s.startsWith(p, i) with 1-based i.
StartsAt(s, p, i) == /\ i >= 1
                     /\ i + Len(p) - 1 <= Len(s)
                     /\ SubSeq(s, i, i + Len(p) - 1) = p

\* s.indexOf(p), 1-based; 0 when p does not occur.
IndexOf(s, p) ==
    LET hits == {i \in 1..Len(s) : StartsAt(s, p, i)}
    IN  IF hits = {} THEN 0 ELSE Min(hits)

\* s.includes(p)
Includes(s, p) == IndexOf(s, p) # 0

Whitespace == {" ", "\n", "\t", "\r"}

\* s.trim()
Trim(s) ==
    LET keep == {i \in 1..Len(s) : s[i] \notin Whitespace}
    IN  IF keep = {} THEN <<>>
        ELSE SubSeq(s, Min(keep), Max(keep))

\* s.split(sep) for a one-character separator: never empty, "" splits to [""].
RECURSIVE SplitFrom(_, _, _)
SplitFrom(s, sep, i) ==
    LET j == NextOf(s, i, {sep})
    IN  IF j > Len(s) THEN <<SubSeq(s, i, Len(s))>>
        ELSE <<SubSeq(s, i, j - 1)>> \o SplitFrom(s, sep, j + 1)

Split(s, sep) == SplitFrom(s, sep, 1)

\* The replacement-pattern expansion of String.prototype.replace with a string
\* replacement (GetSubstitution): "$$" is "$", "$&" the match, "$" and a
\* backquote the text before the match, "$" and an apostrophe the text after
\* it; with a string pattern there are no capture groups, so "$" before
\* anything else stands for itself.
RECURSIVE GetSubstitution(_, _, _, _, _)
GetSubstitution(repl, i, before, matched, after) ==
    LET d == NextOf(repl, i, {"$"})     \* the text up to the next "$" is copied
    IN  IF d > Len(repl) THEN SubSeq(repl, i, Len(repl))
        ELSE SubSeq(repl, i, d - 1) \o
             (IF d < Len(repl) /\ repl[d + 1] \in {"$", "&", Backtick, "'"}
              THEN (CASE repl[d + 1] = "$" -> <<"$">>
                      [] repl[d + 1] = "&" -> matched
                      [] repl[d + 1] = Backtick -> before
                      [] repl[d + 1] = "'" -> after)
                   \o GetSubstitution(repl, d + 2, before, matched, after)
              ELSE <<"$">> \o GetSubstitution(repl, d + 1, before, matched, after))

\* str.replace(pat, repl) with a string pattern: the first occurrence only.
StringReplace(str, pat, repl) ==
    LET at == IndexOf(str, pat)
    IN  IF at = 0 THEN str
        ELSE LET before == SubSeq(str, 1, at - 1)
                 after  == SubSeq(str, at + Len(pat), Len(str))
             IN  before \o GetSubstitution(repl, 1, before, pat, after) \o after

----------------------------------------------------------------------------
(* JSON values and JSON.parse / JSON.stringify *)

Undefined == [t |-> "undefined"]
JNull     == [t |-> "null"]
JBool(b)  == [t |-> "bool", b |-> b]
JNum(n)   == [t |-> "num", n |-> n]
JStr(s)   == [t |-> "str", s |-> s]
JArr(xs)  == [t |-> "arr", items |-> xs]
\* An object: its own keys in insertion order, and their values.
JObj(ks, vs) == [t |-> "obj", keys |-> ks, vals |-> vs]

Digits == {"0", "1", "2", "3", "4", "5", "6", "7", "8", "9"}

DigitVal(c) == CHOOSE n \in 0..9 : Chars("0123456789")[n + 1] = c

\* The two-character escapes of a JSON string literal (\b, \f and \uXXXX are
\* not modelled: no text of the model holds them).
Unescape(c) == CASE c = "\"" -> "\""
                 [] c = "\\" -> "\\"
                 [] c = "/"  -> "/"
                 [] c = "n"  -> "\n"
                 [] c = "t"  -> "\t"
                 [] c = "r"  -> "\r"

Escapable == {"\"", "\\", "/", "n", "t", "r"}

ParseFail == [ok |-> FALSE, v |-> Undefined, i |-> 0]
ParseOk(v, i) == [ok |-> TRUE, v |-> v, i |-> i]

\* The first position from i on that holds no white space.
SkipWs(s, i) ==
    LET rest == {j \in i..Len(s) : s[j] \notin Whitespace}
    IN  IF rest = {} THEN Len(s) + 1 ELSE Min(rest)

\* The inside of a string literal, from the character after the opening quote.
RECURSIVE ParseStrBody(_, _, _)
ParseStrBody(s, i, acc) ==
    \* the plain characters up to the next quote, backslash or control character
    LET j   == NextOf(s, i, {"\"", "\\", "\n", "\t", "\r"})
        got == acc \o SubSeq(s, i, j - 1)
    IN  IF j > Len(s) THEN ParseFail
        ELSE IF s[j] = "\"" THEN ParseOk(JStr(got), j + 1)
        ELSE IF s[j] = "\\"
        THEN IF j + 1 <= Len(s) /\ s[j + 1] \in Escapable
             THEN ParseStrBody(s, j + 2, Append(got, Unescape(s[j + 1])))
             ELSE ParseFail
        ELSE ParseFail

RECURSIVE ParseDigits(_, _, _)
ParseDigits(s, i, n) ==
    IF i <= Len(s) /\ s[i] \in Digits
    THEN ParseDigits(s, i + 1, 10 * n + DigitVal(s[i]))
    ELSE ParseOk(JNum(n), i)

\* An integer: -? (0 | [1-9][0-9]*). Fractions and exponents are not modelled:
\* no text of the model holds ".", "e", "E" or "+" next to a digit.
ParseNumber(s, i) ==
    LET neg == s[i] = "-"
        j   == IF neg THEN i + 1 ELSE i
    IN  IF j > Len(s) \/ s[j] \notin Digits THEN ParseFail
        ELSE IF s[j] = "0" THEN ParseOk(JNum(0), j + 1)
        ELSE LET r == ParseDigits(s, j, 0)
             IN  ParseOk(JNum(IF neg THEN 0 - r.v.n ELSE r.v.n), r.i)

ParseLiteral(s, i) ==
    IF StartsAt(s, Chars("true"), i) THEN ParseOk(JBool(TRUE), i + 4)
    ELSE IF StartsAt(s, Chars("false"), i) THEN ParseOk(JBool(FALSE), i + 5)
    ELSE IF StartsAt(s, Chars("null"), i) THEN ParseOk(JNull, i + 4)
    ELSE ParseFail

\* obj[k] = v on an object under construction: a repeated key keeps its place
\* and takes the later value.
SetField(ks, vs, k, v) ==
    IF \E n \in 1..Len(ks) : ks[n] = k
    THEN [ks |-> ks, vs |-> [n \in 1..Len(vs) |-> IF ks[n] = k THEN v ELSE vs[n]]]
    ELSE [ks |-> Append(ks, k), vs |-> Append(vs, v)]

RECURSIVE ParseValue(_, _), ParseElems(_, _, _), ParseMembers(_, _, _, _)

ParseValue(s, i0) ==
    LET i == SkipWs(s, i0)
    IN  IF i > Len(s) THEN ParseFail
        ELSE IF s[i] = "{"
        THEN LET j == SkipWs(s, i + 1)
             IN  IF j <= Len(s) /\ s[j] = "}" THEN ParseOk(JObj(<<>>, <<>>), j + 1)
                 ELSE ParseMembers(s, j, <<>>, <<>>)
        ELSE IF s[i] = "["
        THEN LET j == SkipWs(s, i + 1)
             IN  IF j <= Len(s) /\ s[j] = "]" THEN ParseOk(JArr(<<>>), j + 1)
                 ELSE ParseElems(s, j, <<>>)
        ELSE IF s[i] = "\"" THEN ParseStrBody(s, i + 1, <<>>)
        ELSE IF s[i] \in Digits \cup {"-"} THEN ParseNumber(s, i)
        ELSE ParseLiteral(s, i)

ParseElems(s, i, acc) ==
    LET r == ParseValue(s, i)
    IN  IF ~r.ok THEN ParseFail
        ELSE LET j == SkipWs(s, r.i)
             IN  IF j > Len(s) THEN ParseFail
                 ELSE IF s[j] = "," THEN ParseElems(s, j + 1, Append(acc, r.v))
                 ELSE IF s[j] = "]" THEN ParseOk(JArr(Append(acc, r.v)), j + 1)
                 ELSE ParseFail

ParseMembers(s, i, ks, vs) ==
    IF i > Len(s) \/ s[i] # "\"" THEN ParseFail
    ELSE LET k == ParseStrBody(s, i + 1, <<>>)
         IN  IF ~k.ok THEN ParseFail
             ELSE LET c == SkipWs(s, k.i)
                  IN  IF c > Len(s) \/ s[c] # ":" THEN ParseFail
                      ELSE LET r == ParseValue(s, c + 1)
                           IN  IF ~r.ok THEN ParseFail
                               ELSE LET j  == SkipWs(s, r.i)
                                        kv == SetField(ks, vs, k.v.s, r.v)
                                    IN  IF j > Len(s) THEN ParseFail
                                        ELSE IF s[j] = ","
                                        THEN ParseMembers(s, SkipWs(s, j + 1), kv.ks, kv.vs)
                                        ELSE IF s[j] = "}"
                                        THEN ParseOk(JObj(kv.ks, kv.vs), j + 1)
                                        ELSE ParseFail

\* JSON.parse(s): [ok, v]; ok is FALSE where JSON.parse throws a SyntaxError.
JsonParse(s) ==
    LET r == ParseValue(s, 1)
    IN  IF r.ok /\ SkipWs(s, r.i) = Len(s) + 1
        THEN [ok |-> TRUE, v |-> r.v]
        ELSE [ok |-> FALSE, v |-> Undefined]

\* JSON.stringify of one character of a string.
QuoteChar(c) == CASE c = "\"" -> <<"\\", "\"">>
                  [] c = "\\" -> <<"\\", "\\">>
                  [] c = "\n" -> <<"\\", "n">>
                  [] c = "\t" -> <<"\\", "t">>
                  [] c = "\r" -> <<"\\", "r">>
                  [] OTHER    -> <<c>>

\* JSON.stringify(s) of a string s: the literal, with its surrounding quotes.
StringifyString(s) ==
    <<"\"">> \o Flatten([i \in 1..Len(s) |-> QuoteChar(s[i])]) \o <<"\"">>

\* obj[k] of a parsed object, Undefined when k is not an own key.
Field(o, k) ==
    IF o.t = "obj" /\ \E n \in 1..Len(o.keys) : o.keys[n] = k
    THEN o.vals[CHOOSE n \in 1..Len(o.keys) : o.keys[n] = k]
    ELSE Undefined

\* JSON.stringify(v) of a parsed value: the minified text.
RECURSIVE JsonStringify(_)
JsonStringify(v) ==
    CASE v.t = "str"  -> StringifyString(v.s)
      [] v.t = "num"  -> IF v.n < 0 THEN <<"-">> \o JsonStringify(JNum(0 - v.n))
                         ELSE IF v.n < 10 THEN <<Chars("0123456789")[v.n + 1]>>
                         ELSE JsonStringify(JNum(v.n \div 10))
                              \o <<Chars("0123456789")[(v.n % 10) + 1]>>
      [] v.t = "bool" -> IF v.b THEN Chars("true") ELSE Chars("false")
      [] v.t = "null" -> Chars("null")
      [] v.t = "arr"  ->
            <<"[">> \o Flatten([n \in 1..Len(v.items) |->
                          (IF n > 1 THEN <<",">> ELSE <<>>) \o JsonStringify(v.items[n])])
            \o <<"]">>
      [] v.t = "obj"  ->
            <<"{">> \o Flatten([n \in 1..Len(v.keys) |->
                          (IF n > 1 THEN <<",">> ELSE <<>>)
                          \o StringifyString(v.keys[n]) \o <<":">>
                          \o JsonStringify(v.vals[n])])
            \o <<"}">>

----------------------------------------------------------------------------
(* callCustomApi: the body template *)

Placeholder       == Chars("{{prompt}}")
QuotedPlaceholder == Chars("\"{{prompt}}\"")

\* A substitution that replaces whichever placeholder stands first in the
\* template.
BuildBodyFirstFound(prompt, customBodyTemplate) ==
    LET escapedPrompt == StringifyString(prompt)
        i == IndexOf(customBodyTemplate, Placeholder)
    IN  IF i > 1 /\ StartsAt(customBodyTemplate, QuotedPlaceholder, i - 1)
        THEN StringReplace(customBodyTemplate, QuotedPlaceholder, escapedPrompt)
        ELSE StringReplace(customBodyTemplate, Placeholder, escapedPrompt)

\* bodyStr of callCustomApi: the template with the placeholder replaced by the
\* JSON-encoded prompt, by String.prototype.replace with a string replacement.
BuildBody(prompt, customBodyTemplate) ==
    LET escapedPrompt == StringifyString(prompt)
    IN  IF Includes(customBodyTemplate, QuotedPlaceholder)
        THEN StringReplace(customBodyTemplate, QuotedPlaceholder, escapedPrompt)
        ELSE StringReplace(customBodyTemplate, Placeholder, escapedPrompt)

----------------------------------------------------------------------------
(* callCustomApi: the response path *)

\* ToBoolean(v), as the && of getNestedValue tests it.
Truthy(v) == CASE v.t = "undefined" -> FALSE
               [] v.t = "null" -> FALSE
               [] v.t = "bool" -> v.b
               [] v.t = "num"  -> v.n # 0
               [] v.t = "str"  -> v.s # <<>>
               [] OTHER        -> TRUE

\* A canonical array index: "0", or digits that do not start with "0".
IsIndex(part) == /\ part # <<>>
                 /\ \A n \in 1..Len(part) : part[n] \in Digits
                 /\ (Len(part) > 1 => part[1] # "0")

RECURSIVE IndexVal(_)
IndexVal(part) == IF part = <<>> THEN 0
                  ELSE 10 * IndexVal(SubSeq(part, 1, Len(part) - 1))
                       + DigitVal(part[Len(part)])

\* acc[part] of a truthy value: an own key of an object; an element or the
\* length of an array; a character or the length of a string (JavaScript boxes
\* the string); undefined otherwise. Members inherited from the prototypes
\* (constructor, toString, ...) are not modelled: no path of the model names one.
GetProp(acc, part) ==
    CASE acc.t = "obj" -> Field(acc, part)
      [] acc.t = "arr" ->
            IF IsIndex(part) /\ IndexVal(part) < Len(acc.items)
            THEN acc.items[IndexVal(part) + 1]
            ELSE IF part = Chars("length") THEN JNum(Len(acc.items))
            ELSE Undefined
      [] acc.t = "str" ->
            IF IsIndex(part) /\ IndexVal(part) < Len(acc.s)
            THEN JStr(<<acc.s[IndexVal(part) + 1]>>)
            ELSE IF part = Chars("length") THEN JNum(Len(acc.s))
            ELSE Undefined
      [] OTHER -> Undefined

\* parts.reduce((acc, part) => acc && acc[part], obj)
RECURSIVE Reduce(_, _)
Reduce(acc, parts) ==
    IF parts = <<>> THEN acc
    ELSE Reduce(IF Truthy(acc) THEN GetProp(acc, Head(parts)) ELSE acc, Tail(parts))

getNestedValue(obj, path) == Reduce(obj, Split(path, "."))

\* Step 4 of callCustomApi on the decoded response: the string it returns, or
\* ok = FALSE where it throws "Could not find string at path".
ExtractResponse(json, customResponsePath) ==
    LET resultText == getNestedValue(json, customResponsePath)
    IN  IF resultText.t # "str" THEN [ok |-> FALSE, s |-> <<>>]
        ELSE [ok |-> TRUE, s |-> resultText.s]

----------------------------------------------------------------------------
(* translateJson: lenient JSON recovery *)

Fence == Chars("~~~")

\* text.replace(/```json\n?|\n?```/g, ''): left to right, at each position the
\* first alternative before the second, each "\n?" greedy.
RECURSIVE StripFrom(_, _)
StripFrom(s, i) ==
    LET hits == {j \in i..Len(s) : \/ StartsAt(s, Fence, j)
                                   \/ s[j] = "\n" /\ StartsAt(s, Fence, j + 1)}
    IN  IF hits = {} THEN SubSeq(s, i, Len(s))
        ELSE LET j == Min(hits)      \* the leftmost match; the text before it is kept
             IN  SubSeq(s, i, j - 1) \o
                 (IF StartsAt(s, Chars("~~~json"), j)
                  THEN StripFrom(s, IF j + 7 <= Len(s) /\ s[j + 7] = "\n"
                                    THEN j + 8 ELSE j + 7)
                  ELSE IF s[j] = "\n" THEN StripFrom(s, j + 4)
                  ELSE StripFrom(s, j + 3))

StripFences(text) == StripFrom(text, 1)

\* A non-greedy star: the first c after position i.
FirstClose(s, c, i) ==
    LET hits == {j \in (i + 1)..Len(s) : s[j] = c}
    IN  IF hits = {} THEN 0 ELSE Min(hits)

\* [\s\S]*c after position i: the star takes the rest of the text and gives
\* characters back until c follows. The index of that c, 0 when there is none.
LastClose(s, c, i) ==
    LET hits == {j \in (i + 1)..Len(s) : s[j] = c}
    IN  IF hits = {} THEN 0 ELSE Max(hits)

\* (\{[\s\S]*\}|\[[\s\S]*\]) tried at position i: the end of the match, or 0.
MatchAt(s, i) == IF s[i] = "{" THEN LastClose(s, "}", i)
                 ELSE IF s[i] = "[" THEN LastClose(s, "]", i)
                 ELSE 0

\* cleanText.match(/(\{[\s\S]*\}|\[[\s\S]*\])/): the match at the leftmost
\* position where the pattern matches.
JsonMatch(cleanText) ==
    LET starts == {i \in 1..Len(cleanText) : MatchAt(cleanText, i) # 0}
    IN  IF starts = {} THEN [found |-> FALSE, text |-> <<>>]
        ELSE [found |-> TRUE,
              text  |-> SubSeq(cleanText, Min(starts), MatchAt(cleanText, Min(starts)))]

\* A recovery that gives up when the pattern finds no match.
RecoverJsonStrict(text) ==
    LET stripped  == Trim(StripFences(text))
        jsonMatch == JsonMatch(stripped)
        p         == JsonParse(jsonMatch.text)
    IN  [ok |-> jsonMatch.found /\ p.ok, v |-> p.v, stripped |-> stripped,
         parsed |-> jsonMatch.text]

\* Lines 139-145 of translateJson on a non-empty provider text: stripped is the
\* fence-stripped, trimmed text; parsed the text handed to JSON.parse; ok is
\* FALSE where JSON.parse throws, and v the value returned otherwise.
RecoverJson(text) ==
    LET stripped  == Trim(StripFences(text))
        jsonMatch == JsonMatch(stripped)
        cleanText == IF jsonMatch.found THEN jsonMatch.text ELSE stripped
        p         == JsonParse(cleanText)
    IN  [ok |-> p.ok, v |-> p.v, stripped |-> stripped, parsed |-> cleanText]

----------------------------------------------------------------------------
(* translateJson: prompts *)

\* The default system instruction, cut to its ASCII skeleton: the rules and
\* the example with its two JSON objects.
DefaultSystemInstruction ==
    Chars("RULES: 1. Keep the JSON structure.\nExample:\nInput: { \"description\": \"rock\" }\nOutput: { \"description\": \"rock | R\" }\n")

\* customPrompt || defaultSystemInstruction
SystemInstruction(customPrompt) ==
    IF customPrompt = <<>> THEN DefaultSystemInstruction ELSE customPrompt

FullPromptForCustom(systemInstruction, jsonString) ==
    systemInstruction \o Chars("\n\nTask: Please translate the following JSON:\n\n~~~json\n")
    \o jsonString \o Chars("\n~~~")

GeminiUserPrompt(jsonString) ==
    Chars("Please translate the following JSON:\n\n~~~json\n") \o jsonString \o Chars("\n~~~")

----------------------------------------------------------------------------
(* translateJson: the retry loop around one adapter call *)

maxRetries == 3

\* A backoff that grows linearly.
BackoffLinear(k) == 1000 * k

\* The argument of delay() after failed attempt k.
Backoff(k) == 1000 * 2^k

\* A status check that takes 200 alone for success.
ResponseOkOnly200(status) == status = 200

\* response.ok
ResponseOk(status) == status >= 200 /\ status <= 299

\* A header step that swallows the parse error and sends no headers.
ParseHeadersLenient(customHeaders) ==
    IF JsonParse(customHeaders).ok THEN JsonParse(customHeaders)
    ELSE [ok |-> TRUE, v |-> JObj(<<>>, <<>>)]

\* Step 1 of callCustomApi: headers = JSON.parse(customHeaders); ok is FALSE
\* where it throws "Invalid Custom Headers format".
ParseHeaders(customHeaders) == JsonParse(customHeaders)

\* An Error object: what raised it, what it carries, and the attempt that
\* raised it (two attempts never raise the same object).
Err(kind, status, text, k) == [kind |-> kind, status |-> status, text |-> text, at |-> k]

NoError  == Err("none", 0, <<>>, 0)
NoResult == Undefined

\* The inputs of the model's calls.
Calls ==
    {[jsonData |-> JsonParse(Chars("{\"k\":\"v\"}")).v, customPrompt |-> Chars("T")],
     [jsonData |-> JsonParse(Chars("[1]")).v, customPrompt |-> <<>>]}
HeaderTemplates ==
    {Chars(""), Chars(" "), Chars("{}"), Chars("{\"A\":\"b\"}"), Chars("{\"A\":")}
BodyTemplates ==
    {Chars(""), Chars("{\"q\":{{prompt}}}"), Chars("{\"q\":\"{{prompt}}\"}")}
ResponsePaths == {Chars("a"), Chars("a.0")}
Methods       == {"POST", "GET"}

\* What the endpoint may answer.
Statuses == {200, 204, 404}
ResponseBodies ==
    {Chars("{\"a\":\"{\\\"k\\\":1}\"}"),     \* the text {"k":1} under a
     Chars("{\"a\":\"\"}"),                  \* an empty text
     Chars("{\"a\":\"oops\"}"),              \* a text that is not JSON
     Chars("{\"b\":1}"),                     \* nothing under a
     Chars("<html>")}                        \* not JSON
\* What the built-in model may answer (response.text; <<>> when it has none).
ProviderTexts ==
    {<<>>, Chars("{\"k\":\"v | w\"}"), Chars("~~~json\n[1]\n~~~"), Chars("sorry")}

NoResponse == [attempt |-> 0, status |-> 0, body |-> <<>>]

NoSettings == [provider |-> "ABSENT", customMethod |-> "POST", customHeaders |-> <<>>,
               customBodyTemplate |-> <<>>, customResponsePath |-> <<>>]

SettingsSet ==
    {NoSettings}
    \cup {[provider |-> "GEMINI", customMethod |-> "POST", customHeaders |-> Chars("{}"),
           customBodyTemplate |-> Chars("{\"q\":{{prompt}}}"),
           customResponsePath |-> Chars("a")]}
    \cup [provider : {"CUSTOM"}, customMethod : {"POST"}, customHeaders : HeaderTemplates,
          customBodyTemplate : BodyTemplates, customResponsePath : {Chars("a")}]
    \cup [provider : {"CUSTOM"}, customMethod : Methods, customHeaders : {Chars("{}")},
          customBodyTemplate : {Chars("{\"q\":{{prompt}}}")},
          customResponsePath : ResponsePaths]

\* A selection that takes the custom adapter whenever settings are given.
IsCustomAnySettings == settings.provider # "ABSENT"

\* apiSettings && apiSettings.provider === ApiProvider.CUSTOM
IsCustom == settings.provider = "CUSTOM"

jsonString        == JsonStringify(call.jsonData)
systemInstruction == SystemInstruction(call.customPrompt)

\* The variables that belong to the single-function specifications.
Idle == [done |-> TRUE]

Init ==
    /\ call \in Calls
    /\ settings \in SettingsSet
    /\ pc = "attempt"
    /\ attempt = 1
    /\ lastError = NoError
    /\ result = NoResult
    /\ thrown = NoError
    /\ steps = <<>>
    /\ requests = <<>>
    /\ response = NoResponse
    /\ delays = <<>>
    /\ errs = <<>>
    /\ tpl = Idle /\ pth = Idle /\ rec = Idle /\ frames = Idle /\ form = Idle

\* The current attempt takes the steps st, in order.
Step(st) == steps' = [steps EXCEPT ![attempt] = @ \o st]

\* A catch block that gives up at once on a configuration error.
CatchFatal(error) ==
    /\ lastError' = error
    /\ errs' = Append(errs, error)
    /\ IF attempt = maxRetries \/ error.kind = "ConfigError"
       THEN /\ pc' = "thrown"
            /\ thrown' = error
            /\ UNCHANGED delays
       ELSE /\ pc' = "delay"
            /\ delays' = Append(delays, Backoff(attempt))
            /\ UNCHANGED thrown
    /\ UNCHANGED <<attempt, result>>

\* A catch block that starts the delay and goes on without awaiting it.
CatchNoAwait(error) ==
    /\ lastError' = error
    /\ errs' = Append(errs, error)
    /\ IF attempt = maxRetries
       THEN /\ pc' = "thrown"
            /\ thrown' = error
            /\ UNCHANGED <<delays, attempt>>
       ELSE /\ pc' = "attempt"
            /\ attempt' = attempt + 1
            /\ delays' = Append(delays, Backoff(attempt))
            /\ UNCHANGED thrown
    /\ UNCHANGED result

\* The catch block of the loop, then the throw after it: the error becomes
\* lastError; on the last attempt the loop is left and lastError is thrown,
\* otherwise the call waits for the backoff delay.
Catch(error) ==
    /\ lastError' = error
    /\ errs' = Append(errs, error)
    /\ IF attempt = maxRetries
       THEN /\ pc' = "thrown"
            /\ thrown' = error
            /\ UNCHANGED delays
       ELSE /\ pc' = "delay"
            /\ delays' = Append(delays, Backoff(attempt))
            /\ UNCHANGED thrown
    /\ UNCHANGED <<attempt, result>>

\* From "if (!text)" to the return of the try block.
HandleText(text) ==
    IF text = <<>> THEN Catch(Err("NoTextError", 0, <<>>, attempt))
    ELSE LET r == RecoverJson(text)
         IN  IF r.ok
             THEN /\ pc' = "returned"
                  /\ result' = r.v
                  /\ UNCHANGED <<attempt, lastError, thrown, delays, errs>>
             ELSE Catch(Err("ParseError", 0, r.parsed, attempt))

\* A substitution that writes the body back into the settings record.
AssignBodyTemplate(s, bodyStr) == [s EXCEPT !.customBodyTemplate = bodyStr]

\* let bodyStr = customBodyTemplate; bodyStr = bodyStr.replace(...): the
\* settings record s after the assignments to bodyStr. bodyStr is a local of
\* callCustomApi and strings are values, so the record keeps its template.
AssignBodyStr(s, bodyStr) == s

\* An attempt begins. With the custom provider callCustomApi runs up to its
\* fetch: the headers are parsed (ConfigError), the body is built, the
\* request is issued. Otherwise generateContent is called.
StartAttempt ==
    /\ pc = "attempt"
    /\ response' = NoResponse
    /\ settings' = IF IsCustom /\ ParseHeaders(settings.customHeaders).ok
                   THEN AssignBodyStr(settings,
                            BuildBody(FullPromptForCustom(systemInstruction, jsonString),
                                      settings.customBodyTemplate))
                   ELSE settings
    /\ UNCHANGED <<call, tpl, pth, rec, frames, form>>
    /\ IF IsCustom
       THEN LET headers == ParseHeaders(settings.customHeaders)
                prompt  == FullPromptForCustom(systemInstruction, jsonString)
            IN  IF ~headers.ok
                THEN /\ steps' = Append(steps, <<"headers">>)
                     /\ Catch(Err("ConfigError", 0, <<>>, attempt))
                     /\ UNCHANGED requests
                ELSE /\ steps' = Append(steps, <<"headers", "body", "fetch">>)
                     /\ requests' = Append(requests,
                            [attempt |-> attempt, adapter |-> "custom",
                             method |-> settings.customMethod, headers |-> headers.v,
                             hasBody |-> settings.customMethod = "POST",
                             body |-> IF settings.customMethod = "POST"
                                      THEN BuildBody(prompt, settings.customBodyTemplate)
                                      ELSE <<>>,
                             prompt |-> prompt, systemInstruction |-> <<>>])
                     /\ pc' = "fetching"
                     /\ UNCHANGED <<attempt, lastError, result, thrown, delays, errs>>
       ELSE /\ steps' = Append(steps, <<"generate">>)
            /\ requests' = Append(requests,
                   [attempt |-> attempt, adapter |-> "builtin", method |-> "",
                    headers |-> Undefined, hasBody |-> FALSE, body |-> <<>>,
                    prompt |-> GeminiUserPrompt(jsonString),
                    systemInstruction |-> systemInstruction])
            /\ pc' = "generating"
            /\ UNCHANGED <<attempt, lastError, result, thrown, delays, errs>>

\* fetch rejects: a transport failure.
FetchReject ==
    /\ pc = "fetching"
    /\ Catch(Err("NetworkError", 0, <<>>, attempt))
    /\ UNCHANGED <<call, settings, steps, requests, response, tpl, pth, rec, frames, form>>

\* fetch resolves with a response of this status and body: the rest of
\* callCustomApi (status check, decoding, extraction) and of the try block of
\* translateJson.
FetchResolve(status, body) ==
    /\ pc = "fetching"
    /\ response' = [attempt |-> attempt, status |-> status, body |-> body]
    /\ IF ~ResponseOk(status)
       THEN /\ Step(<<"status">>)
            /\ Catch(Err("HttpStatusError", status, body, attempt))
       ELSE LET json == JsonParse(body)
            IN  IF ~json.ok
                THEN /\ Step(<<"status", "decode">>)
                     /\ Catch(Err("DecodeError", 0, <<>>, attempt))
                ELSE LET x == ExtractResponse(json.v, settings.customResponsePath)
                     IN  IF ~x.ok
                         THEN /\ Step(<<"status", "decode", "extract">>)
                              /\ Catch(Err("ExtractionError", 0, <<>>, attempt))
                         ELSE /\ Step(<<"status", "decode", "extract", "recover">>)
                              /\ HandleText(x.s)
    /\ UNCHANGED <<call, settings, requests, tpl, pth, rec, frames, form>>

\* fetch resolves with any response the endpoint may give.
FetchRespond ==
    \E status \in Statuses, body \in ResponseBodies : FetchResolve(status, body)

\* generateContent rejects.
GenerateReject ==
    /\ pc = "generating"
    /\ Catch(Err("ProviderError", 0, <<>>, attempt))
    /\ UNCHANGED <<call, settings, steps, requests, response, tpl, pth, rec, frames, form>>

\* generateContent resolves with this text: text = response.text || "".
GenerateResolve(text) ==
    /\ pc = "generating"
    /\ Step(<<"recover">>)
    /\ HandleText(text)
    /\ UNCHANGED <<call, settings, requests, response, tpl, pth, rec, frames, form>>

\* generateContent resolves with any text the model may give.
GenerateRespond ==
    \E text \in ProviderTexts : GenerateResolve(text)

\* A loop that forgets to count: the attempt after the delay has the number
\* of the one before it.
DelayElapsedNoCount ==
    /\ pc = "delay"
    /\ pc' = "attempt"
    /\ UNCHANGED <<call, settings, attempt, lastError, result, thrown, steps, requests,
                   response, delays, errs, tpl, pth, rec, frames, form>>

\* The backoff delay elapses; the loop goes to its next attempt.
DelayElapsed ==
    /\ pc = "delay"
    /\ attempt' = attempt + 1
    /\ pc' = "attempt"
    /\ UNCHANGED <<call, settings, lastError, result, thrown, steps, requests,
                   response, delays, errs, tpl, pth, rec, frames, form>>

Next == \/ StartAttempt
        \/ FetchReject
        \/ FetchRespond
        \/ GenerateReject
        \/ GenerateRespond
        \/ DelayElapsed

Spec == Init /\ [][Next]_vars

\* The call moves on: it leaves the position it is at. Every step of Next
\* is such a step, and one is possible at every position but the two ends.
MovesOn ==
    /\ pc \notin {"returned", "thrown"}
    /\ pc' \in {"attempt", "fetching", "generating", "delay", "returned", "thrown"} \ {pc}

\* The call where what it awaits settles: every fetch and every
\* generateContent resolves or rejects, every timer of delay() fires, and the
\* code between two awaits runs to its end.
SpecLive == Spec /\ WF_pc(MovesOn)

----------------------------------------------------------------------------
(* The single functions, each applied once to an input drawn from a bounded set *)

\* The variables of the call, at rest.
CallOff ==
    /\ call = [jsonData |-> JNull, customPrompt |-> <<>>]
    /\ settings = NoSettings
    /\ pc = "off"
    /\ attempt = 0
    /\ lastError = NoError
    /\ result = NoResult
    /\ thrown = NoError
    /\ steps = <<>>
    /\ requests = <<>>
    /\ response = NoResponse
    /\ delays = <<>>
    /\ errs = <<>>

callVars == <<call, settings, pc, attempt, lastError, result, thrown, steps,
              requests, response, delays, errs>>

\* All sequences over alphabet of length lo to hi.
SeqsOf(alphabet, lo, hi) == UNION {[1..n -> alphabet] : n \in lo..hi}

(* Body substitution *)

MaxPromptLen == 3

PromptAlphabet == {"a", "\"", "\\", "\n", "$", "&", Backtick, "'"}

Prompts == SeqsOf(PromptAlphabet, 0, MaxPromptLen)

\* JSON object templates whose field q is the placeholder, bare or quoted.
OneFieldTemplates ==
    {Chars("{\"q\":{{prompt}}}"),
     Chars("{\"q\":\"{{prompt}}\"}"),
     Chars("{\"m\":\"x\",\"q\":{{prompt}},\"s\":1}"),
     Chars("{\"m\":\"x\",\"q\":\"{{prompt}}\",\"s\":1}")}

TemplateInit ==
    /\ CallOff
    /\ tpl \in [prompt : Prompts, template : OneFieldTemplates, body : {<<>>},
                done : {FALSE}]
    /\ pth = Idle /\ rec = Idle /\ frames = Idle /\ form = Idle

ApplyTemplate ==
    /\ ~tpl.done
    /\ tpl' = [tpl EXCEPT !.body = BuildBody(tpl.prompt, tpl.template), !.done = TRUE]
    /\ UNCHANGED <<callVars, pth, rec, frames, form>>

NextTemplate == ApplyTemplate

SpecTemplate == TemplateInit /\ [][NextTemplate]_vars

(* Path extraction *)

MaxSegments == 4

Segments == {Chars("choices"), Chars("message"), Chars("content"), Chars("0"),
             Chars("1"), Chars("a"), Chars("x"), <<>>}

\* segs[1] + "." + segs[2] + ...
RECURSIVE JoinDots(_)
JoinDots(segs) == IF Len(segs) = 1 THEN segs[1]
                  ELSE segs[1] \o <<".">> \o JoinDots(Tail(segs))

Paths == {JoinDots(segs) : segs \in SeqsOf(Segments, 1, MaxSegments)}

\* Decoded responses.
PathDocs ==
    {JsonParse(Chars("{\"choices\":[{\"message\":{\"content\":\"hi\"}}]}")).v,
     JsonParse(Chars("{\"a\":\"hi\",\"x\":{\"a\":\"\",\"0\":1},\"\":\"e\"}")).v,
     JsonParse(Chars("[\"s\",[0,\"t\"],null,true,7]")).v,
     JsonParse(Chars("{\"a\":[{\"x\":false,\"content\":[]}],\"1\":{\"0\":\"z\"}}")).v}

PathInit ==
    /\ CallOff
    /\ pth \in [json : PathDocs, path : Paths, out : {[ok |-> FALSE, s |-> <<>>]},
                done : {FALSE}]
    /\ tpl = Idle /\ rec = Idle /\ frames = Idle /\ form = Idle

ApplyPath ==
    /\ ~pth.done
    /\ pth' = [pth EXCEPT !.out = ExtractResponse(pth.json, pth.path), !.done = TRUE]
    /\ UNCHANGED <<callVars, tpl, rec, frames, form>>

NextPath == ApplyPath

SpecPath == PathInit /\ [][NextPath]_vars

(* Lenient recovery *)

MaxPieces == 4

Pieces == {Chars("{"), Chars("}"), Chars("["), Chars("]"), Chars("1"),
           Chars("\"x\":1"), Chars("\"x\""), Chars("true"), Chars(" "), Chars("~~~")}

\* The provider texts: non-empty, as "if (!text)" has let them through.
Texts == {Flatten(ps) : ps \in SeqsOf(Pieces, 1, MaxPieces)}

RecoverInit ==
    /\ CallOff
    /\ rec \in [text : Texts, out : {RecoverJson(<<>>)}, done : {FALSE}]
    /\ tpl = Idle /\ pth = Idle /\ frames = Idle /\ form = Idle

ApplyRecover ==
    /\ ~rec.done
    /\ rec' = [rec EXCEPT !.out = RecoverJson(rec.text), !.done = TRUE]
    /\ UNCHANGED <<callVars, tpl, pth, frames, form>>

NextRecover == ApplyRecover

SpecRecover == RecoverInit /\ [][NextRecover]_vars

----------------------------------------------------------------------------
(* The retry loop: properties of Spec *)

\* C1: when every attempt fails the call makes exactly 3 attempts, numbered
\* 1, 2, 3, waits 2000 ms after attempt 1 and 4000 ms after attempt 2
\* (1000 * 2^k after failed attempt k), waits nothing after attempt 3, and
\* throws the very error attempt 3 raised.
C1_ExhaustedRetries ==
    /\ Len(delays) <= 2
    /\ \A k \in 1..Len(delays) : delays[k] = 1000 * 2^k
    /\ Len(errs) = 3 => pc = "thrown"
    /\ pc = "thrown" =>
        /\ attempt = 3 /\ Len(steps) = 3 /\ Len(errs) = 3
        /\ \A k \in 1..3 : errs[k].at = k
        /\ delays = <<2000, 4000>>
        /\ thrown = errs[3] /\ thrown.at = 3

\* The call has thrown after three attempts that failed in different ways.
C1_Witness ==
    /\ pc = "thrown"
    /\ errs[1].kind = "NetworkError"
    /\ errs[2].kind = "HttpStatusError"
    /\ errs[3].kind = "ParseError"

FailureKinds == {"ConfigError", "NetworkError", "HttpStatusError", "DecodeError",
                 "ExtractionError", "NoTextError", "ParseError", "ProviderError"}

\* C6: a failure of any kind, at any stage, counts as one failed attempt; while
\* fewer than 3 attempts have been made it is followed by the backoff of its
\* attempt number and by a further attempt, and the call throws only after
\* attempt 3.
C6_UniformRetry ==
    /\ \A k \in 1..Len(errs) :
        /\ errs[k].kind \in FailureKinds
        /\ errs[k].at = k
        /\ Len(steps) >= k
        /\ k < 3 => /\ Len(delays) >= k
                    /\ delays[k] = 1000 * 2^k
                    /\ pc # "thrown" \/ Len(errs) = 3
                    /\ (attempt = k /\ pc = "delay") \/ attempt > k
    /\ pc = "thrown" => Len(errs) = 3

\* Two attempts have failed, the first on the header template and the second
\* again, and the call is waiting to make its third.
C6_Witness ==
    /\ pc = "delay" /\ attempt = 2
    /\ errs[1].kind = "ConfigError" /\ errs[2].kind = "ConfigError"

\* C7 (as claimed): with an empty bodyTemplate every attempt fails with a
\* configuration error and the call never issues a request.
C7_EmptyBodyRejected ==
    (IsCustom /\ settings.customBodyTemplate = <<>>) =>
        /\ requests = <<>>
        /\ \A k \in 1..Len(errs) : errs[k].kind = "ConfigError"

\* C8 (as claimed): with an empty or blank headerTemplate no attempt fails on
\* the headers, and every attempt that has started has issued its request with
\* an empty header map.
C8_EmptyHeadersAccepted ==
    (IsCustom /\ Trim(settings.customHeaders) = <<>>) =>
        /\ \A k \in 1..Len(errs) : errs[k].kind # "ConfigError"
        /\ \A k \in 1..Len(steps) :
            \E n \in 1..Len(requests) :
                requests[n].attempt = k /\ requests[n].headers = JObj(<<>>, <<>>)

CustomOrder == <<"headers", "body", "fetch", "status", "decode", "extract", "recover">>

IsPrefix(a, b) == Len(a) <= Len(b) /\ SubSeq(b, 1, Len(a)) = a

RequestsOf(k) == {n \in 1..Len(requests) : requests[n].attempt = k}

\* C9: an attempt of callCustomApi takes its steps in the order header-parse,
\* body-build, request, status check, decode, extraction, and stops at the
\* first that fails: a header template that is not valid JSON fails the
\* attempt with a configuration error and no request is issued in it; a
\* transport failure fails it with no status check, decode or extraction.
C9_StepOrder ==
    IsCustom => \A k \in 1..Len(steps) :
        /\ IsPrefix(steps[k], CustomOrder)
        /\ Cardinality(RequestsOf(k)) = (IF Len(steps[k]) >= 3 THEN 1 ELSE 0)
        /\ ~JsonParse(settings.customHeaders).ok =>
              /\ steps[k] = <<"headers">>
              /\ RequestsOf(k) = {}
              /\ k <= Len(errs) /\ errs[k].kind = "ConfigError"
        /\ k <= Len(errs) =>
              /\ errs[k].kind = "ConfigError" =>
                    steps[k] = <<"headers">> /\ RequestsOf(k) = {}
              /\ errs[k].kind = "NetworkError" => steps[k] = SubSeq(CustomOrder, 1, 3)
              /\ errs[k].kind = "HttpStatusError" => steps[k] = SubSeq(CustomOrder, 1, 4)
              /\ errs[k].kind = "DecodeError" => steps[k] = SubSeq(CustomOrder, 1, 5)
              /\ errs[k].kind = "ExtractionError" => steps[k] = SubSeq(CustomOrder, 1, 6)

\* The first attempt of a call with valid headers has failed in transport,
\* after its request and before any status check, and the second attempt has
\* issued its request.
C9_Witness ==
    /\ IsCustom
    /\ Len(errs) = 1 /\ errs[1].kind = "NetworkError"
    /\ pc = "fetching" /\ attempt = 2

\* A call whose header template is not JSON has failed its first attempt.
C9_WitnessHeaders ==
    /\ IsCustom /\ ~JsonParse(settings.customHeaders).ok
    /\ Trim(settings.customHeaders) # <<>>
    /\ Len(errs) >= 1

\* C10: a response with a status outside 200..299 fails the attempt with an
\* error that carries the status and the body text, with no decode and no
\* extraction; a response with a status in 200..299 never fails the attempt
\* with the status error.
C10_StatusCheck ==
    response.attempt # 0 =>
        LET k == response.attempt
        IN  IF response.status \notin 200..299
            THEN /\ Len(errs) >= k
                 /\ errs[k] = Err("HttpStatusError", response.status, response.body, k)
                 /\ steps[k] = <<"headers", "body", "fetch", "status">>
            ELSE /\ "status" \in {steps[k][n] : n \in 1..Len(steps[k])}
                 /\ k <= Len(errs) => errs[k].kind # "HttpStatusError"

\* A 404 has failed the second attempt after a 204 whose body held no text
\* failed the first.
C10_Witness ==
    /\ response.attempt = 2 /\ response.status = 404
    /\ Len(errs) = 2 /\ errs[1].kind = "NoTextError"
    /\ errs[2].kind = "HttpStatusError"

----------------------------------------------------------------------------
(* Body substitution: properties of SpecTemplate *)

\* C2 (as claimed): for every prompt and every template whose field q is the
\* placeholder, bare or quoted, the built body parses as JSON and its field q
\* is the prompt.
C2_BodyCarriesPrompt ==
    tpl.done =>
        LET body == JsonParse(tpl.body)
        IN  body.ok /\ Field(body.v, Chars("q")) = JStr(tpl.prompt)

----------------------------------------------------------------------------
(* Path extraction: properties of SpecPath *)

\* Resolution as the specification words it: a segment is a key of an object
\* or an in-range index of an array; anything else is unresolved.
RECURSIVE StrictResolve(_, _)
StrictResolve(v, parts) ==
    IF parts = <<>> THEN v
    ELSE IF v.t = "obj" /\ Field(v, Head(parts)) # Undefined
    THEN StrictResolve(Field(v, Head(parts)), Tail(parts))
    ELSE IF v.t = "arr" /\ IsIndex(Head(parts)) /\ IndexVal(Head(parts)) < Len(v.items)
    THEN StrictResolve(v.items[IndexVal(Head(parts)) + 1], Tail(parts))
    ELSE Undefined

\* C3 (as claimed): the call returns a string exactly when every segment
\* resolves as a key of an object or an in-range index of an array and the
\* value reached is a string, which is then the string returned; it fails
\* when a segment is applied to a scalar.
C3_PathStrict ==
    pth.done =>
        LET want == StrictResolve(pth.json, Split(pth.path, "."))
        IN  /\ pth.out.ok <=> want.t = "str"
            /\ pth.out.ok => pth.out.s = want.s

----------------------------------------------------------------------------
(* Lenient recovery: properties of SpecRecover *)

Openers == {"{", "["}

HasOpener(s) == \E i \in 1..Len(s) : s[i] \in Openers

\* C4 (as claimed): recovery fails whenever the fence-stripped text holds
\* neither "{" nor "[", and whenever the text it extracts does not parse.
C4_NoDelimiterFails ==
    rec.done =>
        /\ ~HasOpener(rec.out.stripped) => ~rec.out.ok
        /\ ~JsonParse(rec.out.parsed).ok => ~rec.out.ok

\* C4 (amended): recovery fails exactly when the text handed to the parser does
\* not parse as JSON; a fence-stripped text with neither "{" nor "[" is handed
\* to the parser whole, so it fails unless it is itself a JSON scalar, which is
\* then the value returned: 1, 11, true and "x" are.
C4_FailsIffUnparsable ==
    rec.done =>
        /\ rec.out.ok <=> JsonParse(rec.out.parsed).ok
        /\ ~HasOpener(rec.out.stripped) =>
              /\ rec.out.parsed = rec.out.stripped
              /\ rec.out.ok <=> JsonParse(rec.out.stripped).ok
        /\ rec.out.stripped = Chars("1") => rec.out.ok /\ rec.out.v = JNum(1)
        /\ rec.out.stripped = Chars("11") => rec.out.ok /\ rec.out.v = JNum(11)
        /\ rec.out.stripped = Chars("true") => rec.out.ok /\ rec.out.v = JBool(TRUE)
        /\ rec.out.stripped = Chars("\"x\"") => rec.out.ok /\ rec.out.v = JStr(<<"x">>)
        /\ rec.out.stripped = Chars("1 1") => ~rec.out.ok
        /\ rec.out.stripped = Chars("\"x\":1") => ~rec.out.ok

\* A text that is a scalar between blanks and fence markers has been recovered.
C4_Witness ==
    /\ rec.done
    /\ rec.text = Chars("~~~ true ")
    /\ rec.out.ok /\ rec.out.v = JBool(TRUE)

Closer(c) == IF c = "{" THEN "}" ELSE "]"

CanOpen(c, i) == /\ c[i] \in Openers
                 /\ \E j \in (i + 1)..Len(c) : c[j] = Closer(c[i])

----------------------------------------------------------------------------
(* translateJson against an identity provider: the provider answers every   *)
(* request with the prompt the request carried                              *)

MaxEchoPieces == 2

EchoPieces == {Chars("v"), Chars("{"), Chars("}"), Chars("["), Chars("]"),
               Chars("~~~"), Chars("~~~json"), Chars("\n")}

\* String values: plain text, braces, brackets, code-fence markers.
EchoStrings == {Flatten(ps) : ps \in SeqsOf(EchoPieces, 0, MaxEchoPieces)}

\* Object and array documents with one string value.
EchoDocs == {JObj(<<Chars("k")>>, <<JStr(s)>>) : s \in EchoStrings}
            \cup {JArr(<<JStr(s)>>) : s \in EchoStrings}

\* No apiSettings (the built-in model), or a custom endpoint whose answer
\* holds the text under a.
EchoSettings ==
    {NoSettings,
     [provider |-> "CUSTOM", customMethod |-> "POST", customHeaders |-> Chars("{}"),
      customBodyTemplate |-> Chars("{\"q\":{{prompt}}}"),
      customResponsePath |-> Chars("a")]}

EchoInit ==
    /\ call \in [jsonData : EchoDocs, customPrompt : {<<>>, Chars("T")}]
    /\ settings \in EchoSettings
    /\ pc = "attempt"
    /\ attempt = 1
    /\ lastError = NoError
    /\ result = NoResult
    /\ thrown = NoError
    /\ steps = <<>>
    /\ requests = <<>>
    /\ response = NoResponse
    /\ delays = <<>>
    /\ errs = <<>>
    /\ tpl = Idle /\ pth = Idle /\ rec = Idle /\ frames = Idle /\ form = Idle

\* The prompt of the request in flight.
PromptInFlight == requests[Len(requests)].prompt

\* The endpoint answers 200 with the prompt as the text under a.
EchoFetch ==
    /\ pc = "fetching"
    /\ FetchResolve(200, JsonStringify(JObj(<<Chars("a")>>, <<JStr(PromptInFlight)>>)))

\* The model answers with the prompt (contents) as its text.
EchoGenerate ==
    /\ pc = "generating"
    /\ GenerateResolve(PromptInFlight)

NextEcho == \/ StartAttempt
            \/ EchoFetch
            \/ EchoGenerate
            \/ DelayElapsed

SpecEcho == EchoInit /\ [][NextEcho]_vars

\* C11 (as claimed): against an identity provider the call returns on its
\* first attempt a value equal to the document it was given, for every object
\* or array document, string values with braces, brackets or code-fence
\* markers included.
C11_RoundTrip ==
    (Len(steps) >= 1 /\ pc \notin {"fetching", "generating"}) =>
        /\ pc = "returned"
        /\ attempt = 1
        /\ result = call.jsonData

----------------------------------------------------------------------------
(* Lenient recovery of a fenced answer with prose around it *)

\* Object and array values: the documents above and some with numbers and
\* nesting.
WrappedValues ==
    EchoDocs \cup {JsonParse(Chars("{\"a\":1}")).v,
                   JsonParse(Chars("[{\"a\":[1,2]},true]")).v,
                   JsonParse(Chars("{\"a\":{\"b\":[]},\"c\":null}")).v,
                   JsonParse(Chars("[]")).v}

ProseBefore == {<<>>, Chars("Here is the result:\n")}
ProseAfter  == {<<>>, Chars("\nThanks")}

\* prose, the fence with the serialization of v in it, prose.
Wrap(before, v, after) ==
    before \o Chars("~~~json\n") \o JsonStringify(v) \o Chars("\n~~~") \o after

WrappedInit ==
    /\ CallOff
    /\ \E v \in WrappedValues, before \in ProseBefore, after \in ProseAfter :
          /\ before # <<>> \/ after # <<>>
          /\ rec = [v |-> v, text |-> Wrap(before, v, after),
                    out |-> RecoverJson(<<>>), done |-> FALSE]
    /\ tpl = Idle /\ pth = Idle /\ frames = Idle /\ form = Idle

SpecWrapped == WrappedInit /\ [][NextRecover]_vars

\* C12 (as claimed): the recovery of v's serialization in a json code fence
\* with prose before or after it gives a value equal to v, for every object
\* or array value v.
C12_WrappedRecovered ==
    rec.done => (rec.out.ok /\ rec.out.v = rec.v)

----------------------------------------------------------------------------
(* Body substitution on templates with several placeholders *)

MaxPlaceholders == 3

\* A template is a JSON array of up to MaxPlaceholders placeholders, each
\* bare or quoted, in any order.
RECURSIVE JoinCommas(_)
JoinCommas(ps) == IF ps = <<>> THEN <<>>
                  ELSE IF Len(ps) = 1 THEN ps[1]
                  ELSE ps[1] \o <<",">> \o JoinCommas(Tail(ps))

ManyTemplates ==
    {<<"[">> \o JoinCommas(ps) \o <<"]">> :
        ps \in SeqsOf({Placeholder, QuotedPlaceholder}, 0, MaxPlaceholders)}

ManyPrompts == {<<>>, Chars("a"), Chars("a\"b"), Chars("\n"), Chars("$"),
                Chars("$&"), Chars("a$$"), Chars("$'") }

ManyInit ==
    /\ CallOff
    /\ tpl \in [prompt : ManyPrompts, template : ManyTemplates, body : {<<>>},
                done : {FALSE}]
    /\ pth = Idle /\ rec = Idle /\ frames = Idle /\ form = Idle

SpecMany == ManyInit /\ [][NextTemplate]_vars

\* The template with the n characters at position i replaced by x.
Splice(t, i, n, x) == SubSeq(t, 1, i - 1) \o x \o SubSeq(t, i + n, Len(t))

\* The first placeholder of the template starts at i: it is a quoted
\* placeholder where a quote stands on either side of it.
QuotedAt(t, i) == i > 1 /\ StartsAt(t, QuotedPlaceholder, i - 1)

\* C13 (as claimed): the body is the template with its first placeholder,
\* bare or quoted, replaced by the JSON-encoded prompt and every later one
\* left as written; a template with no placeholder is returned as it is.
C13_FirstOccurrence ==
    tpl.done =>
        LET t == tpl.template
            i == IndexOf(t, Placeholder)
            e == StringifyString(tpl.prompt)
        IN  tpl.body = IF i = 0 THEN t
                       ELSE IF QuotedAt(t, i)
                            THEN Splice(t, i - 1, Len(QuotedPlaceholder), e)
                            ELSE Splice(t, i, Len(Placeholder), e)

\* The encoded prompt holds a replacement pattern of String.prototype.replace.
HasPattern(e) ==
    \E i \in 1..(Len(e) - 1) : e[i] = "$" /\ e[i + 1] \in {"$", "&", Backtick, "'"}

\* C13 (amended): exactly one placeholder is replaced: the first quoted one
\* where the template holds a quoted one anywhere, else the first bare one;
\* the text around it is left as written, and the text put in its place is
\* the JSON-encoded prompt unless that holds a replacement pattern; a
\* template with no placeholder is returned as it is.
C13_FirstQuotedElseBare ==
    tpl.done =>
        LET t == tpl.template
            q == IndexOf(t, QuotedPlaceholder)
            b == IndexOf(t, Placeholder)
            e == StringifyString(tpl.prompt)
            i == IF q # 0 THEN q ELSE b
            n == IF q # 0 THEN Len(QuotedPlaceholder) ELSE Len(Placeholder)
            m == Len(tpl.body) - (Len(t) - (i + n - 1))
        IN  IF i = 0 THEN tpl.body = t
            ELSE /\ m >= i - 1
                 /\ SubSeq(tpl.body, 1, i - 1) = SubSeq(t, 1, i - 1)
                 /\ SubSeq(tpl.body, m + 1, Len(tpl.body)) = SubSeq(t, i + n, Len(t))
                 /\ ~HasPattern(e) => tpl.body = Splice(t, i, n, e)

\* A bare placeholder stands before a quoted one, and the quoted one was
\* replaced by a prompt with a quote in it.
C13_Witness ==
    /\ tpl.done
    /\ tpl.template = Chars("[{{prompt}},\"{{prompt}}\",{{prompt}}]")
    /\ tpl.prompt = Chars("a\"b")
    /\ tpl.body = Chars("[{{prompt}},\"a\\\"b\",{{prompt}}]")

----------------------------------------------------------------------------
(* Adapter selection: a property of Spec *)

\* The two prompt variants, as the specification words them.
CombinedPrompt ==
    systemInstruction \o Chars("\n\nTask: Please translate the following JSON:\n\n~~~json\n")
    \o JsonStringify(call.jsonData) \o Chars("\n~~~")
TaskOnlyPrompt ==
    Chars("Please translate the following JSON:\n\n~~~json\n")
    \o JsonStringify(call.jsonData) \o Chars("\n~~~")

\* C14: every request of a call goes to the custom adapter, with the combined
\* prompt, where settings are given and their provider is CUSTOM, and to the
\* built-in adapter, with the task-only prompt and the system instruction as
\* a parameter of its own, otherwise.
C14_AdapterSelection ==
    \A n \in 1..Len(requests) :
        IF settings.provider = "CUSTOM"
        THEN /\ requests[n].adapter = "custom"
             /\ requests[n].prompt = CombinedPrompt
        ELSE /\ requests[n].adapter = "builtin"
             /\ requests[n].prompt = TaskOnlyPrompt
             /\ requests[n].systemInstruction = systemInstruction

\* Settings are given with the built-in provider, and all three attempts of
\* the call have gone to the built-in adapter.
C14_Witness ==
    /\ settings.provider = "GEMINI"
    /\ Len(requests) = 3
    /\ \A n \in 1..3 : requests[n].adapter = "builtin" /\ requests[n].attempt = n

----------------------------------------------------------------------------
(* Attempts in sequence: a property of Spec *)

\* The requests of the call that have neither failed nor returned.
InFlight ==
    {n \in 1..Len(requests) : requests[n].attempt > Len(errs) /\ pc # "returned"}

\* One step of the call: a request is issued only from the head of the loop,
\* never while another is in flight, and the head of the loop is reached
\* again only from an awaited delay, the one that followed the failure of the
\* attempt before.
OneAtATime ==
    /\ Len(requests') > Len(requests) =>
            (pc = "attempt" /\ InFlight = {} /\ Len(requests') = Len(requests) + 1)
    /\ pc \in {"fetching", "generating"} => Len(steps') = Len(steps)
    /\ pc' = "attempt" =>
            /\ pc = "delay"
            /\ attempt' = attempt + 1
            /\ Len(errs) = attempt /\ errs[attempt].at = attempt
            /\ Len(delays) = attempt
    /\ pc = "delay" => (pc' = "attempt" /\ requests' = requests /\ steps' = steps)

\* C15: at most one adapter invocation of the call is in flight at any time,
\* and attempt k+1 starts only after attempt k has failed and the delay that
\* follows it has been awaited to its end.
C15_NoOverlap ==
    [](Cardinality(InFlight) <= 1) /\ [][OneAtATime]_vars

\* The second request is in flight after the first attempt failed and its
\* delay of 2000 ms elapsed.
C15_Witness ==
    /\ pc = "fetching" /\ attempt = 2
    /\ Len(requests) = 2 /\ InFlight = {2}
    /\ Len(errs) = 1 /\ delays = <<2000>>

----------------------------------------------------------------------------
(* Two translateJson calls in progress at once. Each call of the async      *)
(* function has an activation of its own, which holds its arguments and its *)
(* locals (attempt, lastError); the client ai is the one value the calls    *)
(* share, and no call assigns to it. A call runs from one await to the next *)
(* without interruption, and the calls interleave at their awaits: the      *)
(* adapter call and the delay.                                              *)

CallIds == {1, 2}

\* An activation that the calls share.
FrameShared(c) == 1

\* The activation in which call c keeps attempt and lastError: its own.
Frame(c) == c

\* An Error object of call c.
TwoErr(c, kind, text, k) == [kind |-> kind, text |-> text, at |-> k, by |-> c]

NoTwoErr == TwoErr(0, "none", <<>>, 0)

\* How an awaited adapter call may settle: it rejects, or it resolves with a
\* text.
Outcomes == {[rejected |-> TRUE, text |-> <<>>],
             [rejected |-> FALSE, text |-> <<>>],
             [rejected |-> FALSE, text |-> Chars("oops")],
             [rejected |-> FALSE, text |-> Chars("~~~json\n{\"k\":1}\n~~~")]}

\* The activation of a call with this adapter, at the head of its loop.
NewFrame(adapter) ==
    [adapter |-> adapter, pc |-> "attempt", attempt |-> 1, lastError |-> NoTwoErr,
     result |-> NoResult, thrown |-> NoTwoErr, delays |-> <<>>, hist |-> <<>>]

TwoInit ==
    /\ CallOff
    /\ tpl = Idle /\ pth = Idle /\ rec = Idle /\ form = Idle
    /\ frames \in [CallIds -> {NewFrame(a) : a \in {"builtin", "custom"}}]

\* The error the try block of call c throws on outcome o in attempt k, or
\* NoTwoErr where it returns.
Thrown(c, o, k) ==
    IF o.rejected
    THEN TwoErr(c, IF frames[c].adapter = "custom" THEN "NetworkError" ELSE "ProviderError",
                <<>>, k)
    ELSE IF o.text = <<>> THEN TwoErr(c, "NoTextError", <<>>, k)
    ELSE IF ~RecoverJson(o.text).ok THEN TwoErr(c, "ParseError", RecoverJson(o.text).parsed, k)
    ELSE NoTwoErr

\* Call c enters the try block and awaits its adapter call.
TwoStart(c) ==
    /\ frames[c].pc = "attempt"
    /\ frames' = [frames EXCEPT ![c].pc = "invoking"]
    /\ UNCHANGED <<callVars, tpl, pth, rec, form>>

\* The adapter call of call c settles with outcome o: the rest of the try
\* block, and the catch block up to its await or to the throw after the loop.
TwoSettle(c, o) ==
    /\ frames[c].pc = "invoking"
    /\ LET k     == frames[Frame(c)].attempt
           error == Thrown(c, o, k)
           heard == [frames EXCEPT ![c].hist = Append(@, o)]
       IN  frames' =
             IF error = NoTwoErr
             THEN [heard EXCEPT ![c].pc = "returned",
                                ![c].result = RecoverJson(o.text).v]
             ELSE LET caught == [heard EXCEPT ![Frame(c)].lastError = error]
                  IN  IF k = maxRetries
                      THEN [caught EXCEPT ![c].pc = "thrown",
                                          ![c].thrown = caught[Frame(c)].lastError]
                      ELSE [caught EXCEPT ![c].pc = "delay",
                                          ![c].delays = Append(@, Backoff(k))]
    /\ UNCHANGED <<callVars, tpl, pth, rec, form>>

\* The delay of call c elapses; its loop goes to the next attempt.
TwoDelayElapsed(c) ==
    /\ frames[c].pc = "delay"
    /\ frames' = [[frames EXCEPT ![Frame(c)].attempt = @ + 1] EXCEPT ![c].pc = "attempt"]
    /\ UNCHANGED <<callVars, tpl, pth, rec, form>>

NextTwo == \E c \in CallIds :
              \/ TwoStart(c)
              \/ \E o \in Outcomes : TwoSettle(c, o)
              \/ TwoDelayElapsed(c)

SpecTwo == TwoInit /\ [][NextTwo]_vars

\* The outcome fails the attempt that awaited it.
Failed(o) == o.rejected \/ o.text = <<>> \/ ~RecoverJson(o.text).ok

\* The kind of error a failing outcome raises in a call with adapter a.
OwnKind(a, o) ==
    IF o.rejected THEN (IF a = "custom" THEN "NetworkError" ELSE "ProviderError")
    ELSE IF o.text = <<>> THEN "NoTextError" ELSE "ParseError"

\* C16: under every interleaving of two calls, the attempt counter, the last
\* error, the delays, the result and the error thrown of each call are those
\* its own adapter and its own outcomes determine.
C16_Independent ==
    \A c \in CallIds :
        LET f == frames[c]
            h == f.hist
            n == Len(h)
            fails == {k \in 1..n : Failed(h[k])}
            last  == IF fails = {} THEN 0 ELSE Max(fails)
        IN  /\ n <= 3
            /\ \A k \in 1..(n - 1) : k \in fails
            /\ f.attempt = IF f.pc \in {"attempt", "invoking"} THEN n + 1 ELSE n
            /\ f.lastError = IF last = 0 THEN NoTwoErr
                              ELSE [kind |-> OwnKind(f.adapter, h[last]),
                                    text |-> IF OwnKind(f.adapter, h[last]) = "ParseError"
                                             THEN RecoverJson(h[last].text).parsed ELSE <<>>,
                                    at |-> last, by |-> c]
            /\ f.delays = [k \in 1..(IF f.pc = "thrown" THEN 2 ELSE last) |-> 1000 * 2^k]
            /\ f.pc = "returned" <=> (n >= 1 /\ n \notin fails)
            /\ f.pc = "returned" => f.result = RecoverJson(h[n].text).v
            /\ f.pc # "returned" => f.result = NoResult
            /\ f.pc = "thrown" <=> (n = 3 /\ 3 \in fails)
            /\ f.thrown = IF f.pc = "thrown" THEN f.lastError ELSE NoTwoErr

\* Both calls have ended: the first threw the error of its own third attempt
\* and the second returned from its second attempt.
C16_Witness ==
    /\ frames[1].pc = "thrown" /\ frames[1].thrown.by = 1
    /\ frames[2].pc = "returned" /\ Len(frames[2].hist) = 2

----------------------------------------------------------------------------
(* The caller's values: a property of Spec *)

\* C17: no step of a call changes the document or the settings record it
\* was given, whatever the outcome of the call.
C17_ArgumentsKept ==
    [][call' = call /\ settings' = settings]_vars

\* The call has thrown after three requests, each with a body built from the
\* template, and the settings still hold the template with its placeholder.
C17_Witness ==
    /\ pc = "thrown"
    /\ Len(requests) = 3
    /\ settings.customBodyTemplate = Chars("{\"q\":{{prompt}}}")
    /\ \A n \in 1..3 : /\ requests[n].hasBody
                        /\ requests[n].body # settings.customBodyTemplate
                        /\ Includes(requests[n].body, Chars("\"q\":\""))

----------------------------------------------------------------------------
(* Termination: a property of SpecLive *)

Ended == pc \in {"returned", "thrown"}

\* The value parsed from the text of the attempt that succeeded.
ParsedFromText ==
    IF IsCustom
    THEN /\ response.attempt = attempt
         /\ response.status \in 200..299
         /\ LET text == ExtractResponse(JsonParse(response.body).v,
                                        settings.customResponsePath).s
            IN  text # <<>> /\ result = RecoverJson(text).v
    ELSE \E text \in ProviderTexts :
            text # <<>> /\ RecoverJson(text).ok /\ result = RecoverJson(text).v

\* C18: where every awaited adapter call settles the call ends, after at
\* most 3 adapter calls and 2 delays; where attempt k is the first to succeed
\* the call has made k adapter calls and k-1 delays and returns the value
\* parsed from the text of attempt k; nothing happens after the end.
C18_Terminates ==
    /\ <>Ended
    /\ [](Len(steps) <= 3 /\ Len(delays) <= 2)
    /\ [](pc = "returned" =>
            /\ attempt \in 1..3
            /\ Len(steps) = attempt /\ Len(errs) = attempt - 1
            /\ delays = [k \in 1..(attempt - 1) |-> 1000 * 2^k]
            /\ result # NoResult /\ ParsedFromText)
    /\ [][~Ended]_vars

\* The third attempt is the first to succeed: three adapter calls, two
\* delays, and the value of the third text returned.
C18_Witness ==
    /\ pc = "returned" /\ attempt = 3
    /\ Len(steps) = 3 /\ delays = <<2000, 4000>>
    /\ result = JsonParse(Chars("{\"k\":1}")).v

----------------------------------------------------------------------------
(* The Settings form (the Settings component): its state localSettings and  *)
(* errors, and what a click on Save hands to onSavePrompt and               *)
(* onSaveApiSettings. React renders again after every event, so the errors  *)
(* a handler reads are those the event before it left.                      *)

\* errors[key] is absent.
NoFieldError == ""

\* A validation that finds every text in order.
ValidateNothing(key, value) == NoFieldError

\* validateJsonField(key, value): what errors[key] is after it, NoFieldError
\* where the key is deleted.
validateJsonField(key, value) ==
    IF Trim(value) = <<>>
    THEN IF key = "customBodyTemplate" THEN "Body template cannot be empty"
         ELSE NoFieldError
    ELSE LET textToTest == IF key = "customBodyTemplate"
                           THEN StringReplace(value, Placeholder, Chars("\"TEST\""))
                           ELSE value
         IN  IF JsonParse(textToTest).ok THEN NoFieldError ELSE "Invalid JSON format"

PRESETS ==
    [COZE_V2 |->
        [headers |-> Chars("{\n  \"Content-Type\": \"application/json\",\n  \"Authorization\": \"Bearer YOUR_PAT_TOKEN\"\n}"),
         body |-> Chars("{\n  \"bot_id\": \"YOUR_BOT_ID\",\n  \"user\": \"user_123456\",\n  \"query\": {{prompt}},\n  \"stream\": false\n}")],
     OPENAI |->
        [headers |-> Chars("{\n  \"Content-Type\": \"application/json\",\n  \"Authorization\": \"Bearer YOUR_SK_KEY\"\n}"),
         body |-> Chars("{\n  \"model\": \"gpt-3.5-turbo\",\n  \"messages\": [\n    { \"role\": \"user\", \"content\": {{prompt}} }\n  ]\n}")]]

\* What the user may type into the two fields.
FormHeaders == HeaderTemplates
FormBodies ==
    {Chars(""), Chars(" "), Chars("{\"q\":{{prompt}}}"), Chars("{\"q\":\"{{prompt}}\"}"),
     Chars("{\"q\":1}"), Chars("{\"q\":{{prompt}}")}

\* No click on Save yet.
NoClick == [clicked |-> FALSE, promptSaved |-> FALSE, apiSaved |-> FALSE,
            alerted |-> FALSE, settings |-> NoSettings,
            errors |-> [customHeaders |-> NoFieldError, customBodyTemplate |-> NoFieldError]]

\* The form after the two validations of its effect, or of applyPreset.
Validated(f) ==
    [f EXCEPT !.errors = [customHeaders |->
                              validateJsonField("customHeaders", f.localSettings.customHeaders),
                          customBodyTemplate |->
                              validateJsonField("customBodyTemplate",
                                                f.localSettings.customBodyTemplate)]]

\* The form mounted with the apiSettings of its props, after its effect.
FormInit ==
    /\ CallOff
    /\ tpl = Idle /\ pth = Idle /\ rec = Idle /\ frames = Idle
    /\ \E p \in {"GEMINI", "CUSTOM"}, h \in {Chars(""), Chars("{}")},
          b \in {Chars(""), Chars("{\"q\":{{prompt}}}")} :
          form = Validated(
                   [localSettings |-> [provider |-> p, customMethod |-> "POST",
                                       customHeaders |-> h, customBodyTemplate |-> b,
                                       customResponsePath |-> Chars("a")],
                    errors |-> NoClick.errors,
                    last |-> NoClick])

\* updateSetting(key, value) on one of the two JSON fields.
UpdateSetting(key, value) ==
    /\ form' = [form EXCEPT !.localSettings[key] = value,
                            !.errors[key] = validateJsonField(key, value)]
    /\ UNCHANGED <<callVars, tpl, pth, rec, frames>>

\* updateSetting('provider', p): the provider toggle.
UpdateProvider(p) ==
    /\ form' = [form EXCEPT !.localSettings.provider = p]
    /\ UNCHANGED <<callVars, tpl, pth, rec, frames>>

applyPreset(type) ==
    /\ form' = Validated([form EXCEPT !.localSettings.provider = "CUSTOM",
                                      !.localSettings.customMethod = "POST",
                                      !.localSettings.customHeaders = PRESETS[type].headers,
                                      !.localSettings.customBodyTemplate = PRESETS[type].body])
    /\ UNCHANGED <<callVars, tpl, pth, rec, frames>>

\* handleSave: last records the click, what the form held at it and what the
\* click called.
handleSave ==
    LET headerValid == form.errors.customHeaders = NoFieldError
        bodyValid   == form.errors.customBodyTemplate = NoFieldError
        blocked     == form.localSettings.provider = "CUSTOM" /\ (~headerValid \/ ~bodyValid)
    IN  /\ form' = [form EXCEPT !.last =
                        [clicked |-> TRUE, promptSaved |-> ~blocked, apiSaved |-> ~blocked,
                         alerted |-> blocked, settings |-> form.localSettings,
                         errors |-> form.errors]]
        /\ UNCHANGED <<callVars, tpl, pth, rec, frames>>

NextForm ==
    \/ \E value \in FormHeaders : UpdateSetting("customHeaders", value)
    \/ \E value \in FormBodies : UpdateSetting("customBodyTemplate", value)
    \/ \E p \in {"GEMINI", "CUSTOM"} : UpdateProvider(p)
    \/ \E type \in {"COZE_V2", "OPENAI"} : applyPreset(type)
    \/ handleSave

SpecForm == FormInit /\ [][NextForm]_vars

\* The body template parses once its placeholder is a string literal.
BodyParses(b) == JsonParse(StringReplace(b, Placeholder, Chars("\"TEST\""))).ok

\* A click with provider CUSTOM while a field is in error calls neither
\* onSavePrompt nor onSaveApiSettings; a click with provider GEMINI calls
\* both.
ClickGated ==
    LET l == form.last
    IN  /\ (l.clicked /\ l.settings.provider = "CUSTOM"
             /\ (l.errors.customHeaders # NoFieldError
                 \/ l.errors.customBodyTemplate # NoFieldError))
                => (~l.promptSaved /\ ~l.apiSaved)
        /\ (l.clicked /\ l.settings.provider = "GEMINI") => (l.promptSaved /\ l.apiSaved)

\* C19 (as claimed): after any sequence of edits, toggles, presets and
\* clicks, onSaveApiSettings is called with provider CUSTOM only where the
\* header text is empty or parses as JSON and the body template is not empty
\* and parses once its placeholder is a string literal; the click is gated as
\* above.
C19_SavedOnlyIfEmptyOrJson ==
    LET l == form.last
    IN  /\ (l.apiSaved /\ l.settings.provider = "CUSTOM") =>
                /\ (l.settings.customHeaders = <<>> \/ JsonParse(l.settings.customHeaders).ok)
                /\ l.settings.customBodyTemplate # <<>>
                /\ BodyParses(l.settings.customBodyTemplate)
        /\ ClickGated

\* C19 (amended): the same, with a header text of white space alone let
\* through like the empty one.
C19_SavedOnlyIfBlankOrJson ==
    LET l == form.last
    IN  /\ (l.apiSaved /\ l.settings.provider = "CUSTOM") =>
                /\ (Trim(l.settings.customHeaders) = <<>>
                    \/ JsonParse(l.settings.customHeaders).ok)
                /\ l.settings.customBodyTemplate # <<>>
                /\ BodyParses(l.settings.customBodyTemplate)
        /\ ClickGated

\* A click with provider CUSTOM went through with a header of one space, and
\* the body template has been emptied since: the next click will be refused.
C19_Witness ==
    /\ form.last.apiSaved /\ form.last.settings.provider = "CUSTOM"
    /\ form.last.settings.customHeaders = Chars(" ")
    /\ form.localSettings.provider = "CUSTOM"
    /\ form.localSettings.customBodyTemplate = Chars("")
    /\ form.errors.customBodyTemplate = "Body template cannot be empty"

----------------------------------------------------------------------------
(* The form's validation of a body template against the body callCustomApi  *)
(* builds from it                                                           *)

ValidateTemplates ==
    OneFieldTemplates \cup ManyTemplates
    \cup {Chars("{\"q\":1}"), Chars("{\"q\":{{prompt}}")}

ValidateInit ==
    /\ CallOff
    /\ tpl \in [prompt : ManyPrompts, template : ValidateTemplates, body : {<<>>},
                error : {NoFieldError}, done : {FALSE}]
    /\ pth = Idle /\ rec = Idle /\ frames = Idle /\ form = Idle

\* The template goes through the form's validation and through the
\* substitution of the request.
ApplyValidate ==
    /\ ~tpl.done
    /\ tpl' = [tpl EXCEPT !.body = BuildBody(tpl.prompt, tpl.template),
                          !.error = validateJsonField("customBodyTemplate", tpl.template),
                          !.done = TRUE]
    /\ UNCHANGED <<callVars, pth, rec, frames, form>>

NextValidate == ApplyValidate

SpecValidate == ValidateInit /\ [][NextValidate]_vars

\* C20 (as claimed): a body template from which the substitution builds
\* valid JSON, the bare form and the quoted form alike, is not refused by the
\* form as invalid JSON, and a template the form accepts gives a valid JSON
\* body.
C20_ValidationAgrees ==
    tpl.done =>
        /\ JsonParse(tpl.body).ok => tpl.error # "Invalid JSON format"
        /\ tpl.error = NoFieldError => JsonParse(tpl.body).ok

====
